---- MODULE Spec2Model ----
(***************************************************************************)
(* Model of src/code/filesystem.py (class Directory) and of the Permissions *)
(* catalogue of src/code/constants.py: the NTFS access control engine.      *)
(*                                                                          *)
(* The state is the on-disk security metadata of a small directory tree:    *)
(* for every path its explicit DACL (an ordered list of ACEs) and whether   *)
(* the DACL is protected from inheritance.  Entries that Windows would      *)
(* derive from a parent object are not part of the model: the code reads    *)
(* and writes one security descriptor per object.                           *)
(*                                                                          *)
(* 32-bit flag words are kept as signed 32-bit integers, as pywin32 hands   *)
(* them to Python.                                                          *)
(***************************************************************************)
EXTENDS Integers, Sequences, FiniteSets, TLC

VARIABLES
    dacl,       \* path -> sequence of ACEs: the explicit DACL of the object
    protected,  \* path -> BOOLEAN: the DACL blocks inheritance from the parent
    sdflags,    \* path -> the security-information flags of the last write (0: none)
    pre,        \* [dacl, protected] as they were when the last operation started
    last,       \* the last operation: its name, arguments and outcome
    log,        \* the descriptor-level calls the last operation issued, in order
    raised,     \* the exception the last operation ended with, if any
    arg,        \* the arguments a caller of the descriptor mutator works with
    files,      \* the files and directories on disk: a set of [at, kind, is]
    self_path,  \* the path attribute of the Directory object (<<>>: no object yet)
    shares,     \* the shares of the server: a set of [netname, path, remark]
    fetched     \* per caller, the descriptor it has read and not yet written back

\* The state beside the descriptors of the tree.
beside == <<files, self_path, shares, fetched>>

vars == <<dacl, protected, sdflags, pre, last, log, raised, arg, beside>>

----------------------------------------------------------------------------
(* Bounds of the model.                                                     *)

\* An operation that would leave a DACL longer than this is not taken.
MaxAces == 5

----------------------------------------------------------------------------
(* 32-bit words.                                                            *)

RECURSIVE Or31(_, _)
Or31(a, b) ==
    IF a = 0 THEN b
    ELSE IF b = 0 THEN a
    ELSE (IF a % 2 = 1 \/ b % 2 = 1 THEN 1 ELSE 0) + 2 * Or31(a \div 2, b \div 2)

\* The low 31 bits of a signed 32-bit word.
Low31(x) == IF x < 0 THEN (x + 2147483647) + 1 ELSE x

\* Python's a | b on two values that fit a signed 32-bit word.
BitOr(a, b) ==
    LET lo == Or31(Low31(a), Low31(b))
    IN  IF a < 0 \/ b < 0 THEN (lo - 2147483647) - 1 ELSE lo

RECURSIVE HasBit31(_, _)
HasBit31(x, bit) ==
    IF bit = 1 THEN x % 2 = 1 ELSE HasBit31(x \div 2, bit \div 2)

\* Whether the one-bit flag word `bit` is set in the word x.
HasFlag(x, bit) ==
    IF bit < 0 THEN x < 0 ELSE HasBit31(Low31(x), bit)

----------------------------------------------------------------------------
(* win32security constants used by filesystem.py.                           *)

CONTAINER_INHERIT_ACE == 2
OBJECT_INHERIT_ACE == 1
NO_INHERITANCE == 0
DACL_SECURITY_INFORMATION == 4
PROTECTED_DACL_SECURITY_INFORMATION == (-2147483647) - 1
UNPROTECTED_DACL_SECURITY_INFORMATION == 536870912

----------------------------------------------------------------------------
(* constants.py                                                             *)

\* WellKnownSIDs
NT_AUTHORITY == "S-1-5-18"
ADMINS == "S-1-5-32-544"
EVERYONE == "S-1-1-0"

\* The members of the enumeration Permissions.
Permissions ==
    {"READ", "READ_WRITE", "DELETE", "MODIFY", "FULL_CONTROL",
     "MODIFY_PROTECTED", "FULL_DENY"}

\* Values a caller can pass that are no member of Permissions.
NotPermissions == {"None", "bogus"}

\* Permissions.<member>.value; auto() numbers on from the last value.
PermValue(perm) ==
    CASE perm = "READ" -> 1179785
      [] perm = "READ_WRITE" -> 1180063
      [] perm = "DELETE" -> 65536
      [] perm = "MODIFY" -> -1072496480
      [] perm = "FULL_CONTROL" -> 2032127
      [] perm = "MODIFY_PROTECTED" -> 2032127 + 1
      [] perm = "FULL_DENY" -> 2032127 + 2

\* con.FILE_ALL_ACCESS, the mask _reset_permissions installs.
FILE_ALL_ACCESS == 2032127

----------------------------------------------------------------------------
(* Accounts of the machine.                                                 *)

STUDENTS == "S-1-5-21-1001"

\* win32security.LookupAccountName(None, name)[0]; "" when it raises.
LookupAccountName(name) ==
    CASE name = "students" -> STUDENTS
      [] name = "Everyone" -> EVERYONE
      [] OTHER -> ""

\* win32security.LookupAccountSid(None, sid): the account a SID names.
LookupAccountSid(sid) ==
    CASE sid = STUDENTS -> <<"students", "CORP">>
      [] sid = EVERYONE -> <<"Everyone", "">>
      [] sid = NT_AUTHORITY -> <<"SYSTEM", "NT AUTHORITY">>
      [] sid = ADMINS -> <<"Administrators", "BUILTIN">>
      [] OTHER -> <<sid, "?">>

----------------------------------------------------------------------------
(* The directory tree on disk.                                              *)

Root == "a"
Paths == {"a", "a/b", "a/1.txt", "a/b/3.txt"}

\* os.walk's dir_names and file_names of one directory, already joined.
DirNames(d) == IF d = "a" THEN <<"a/b">> ELSE <<>>
FileNames(d) ==
    CASE d = "a" -> <<"a/1.txt">>
      [] d = "a/b" -> <<"a/b/3.txt">>
      [] OTHER -> <<>>

\* The directory a path lies in.
Parent(path) ==
    CASE path = "a/b" -> "a"
      [] path = "a/1.txt" -> "a"
      [] path = "a/b/3.txt" -> "a/b"
      [] OTHER -> "-"

RECURSIVE IsBeneath(_, _)
IsBeneath(path, d) ==
    IF Parent(path) = "-" THEN FALSE
    ELSE Parent(path) = d \/ IsBeneath(Parent(path), d)

\* Every file and directory below d.
Beneath(d) == {path \in Paths : IsBeneath(path, d)}

RECURSIVE WalkSubdirs(_, _)
RECURSIVE list_subdirectories_recurs(_)
\* Everything os.walk(top) makes the generator yield, in order: per visited
\* directory its sub-directories, then its files; top itself is never yielded.
list_subdirectories_recurs(top) ==
    DirNames(top) \o FileNames(top) \o WalkSubdirs(DirNames(top), 1)

WalkSubdirs(ds, i) ==
    IF i > Len(ds) THEN <<>>
    ELSE list_subdirectories_recurs(ds[i]) \o WalkSubdirs(ds, i + 1)

----------------------------------------------------------------------------
(* Access control entries and pywin32's PyACL.                              *)

ACCESS_ALLOWED == "A"
ACCESS_DENIED == "D"

Ace(type, flags, mask, sid) ==
    [type |-> type, flags |-> flags, mask |-> mask, sid |-> sid]

\* The entries of one type of an ACL, from index i on, in their order.
RECURSIVE AcesOfType(_, _, _)
AcesOfType(acl, type, i) ==
    IF i > Len(acl) THEN <<>>
    ELSE (IF acl[i].type = type THEN <<acl[i]>> ELSE <<>>) \o AcesOfType(acl, type, i + 1)

\* The order PyACL leaves an ACL in after adding an entry: access-denied
\* entries first, access-allowed entries after them, each group in the order
\* its entries had (test_deny_permission_works: the new Deny entry precedes
\* the baseline Allow entries).
ReorderACL(acl) == AcesOfType(acl, ACCESS_DENIED, 1) \o AcesOfType(acl, ACCESS_ALLOWED, 1)

\* Mutant: the new entry is placed at the head of the list.
AddAccessAllowedAceEx_Prepends(acl, flags, mask, sid) ==
    <<Ace(ACCESS_ALLOWED, flags, mask, sid)>> \o acl

\* dacl.AddAccessAllowedAceEx(ACL_REVISION, flags, mask, sid)
AddAccessAllowedAceEx(acl, flags, mask, sid) ==
    ReorderACL(Append(acl, Ace(ACCESS_ALLOWED, flags, mask, sid)))

\* Mutant: the new entry stays at the end of the list.
AddAccessDeniedAceEx_Appends(acl, flags, mask, sid) ==
    Append(acl, Ace(ACCESS_DENIED, flags, mask, sid))

\* dacl.AddAccessDeniedAceEx(ACL_REVISION, flags, mask, sid)
AddAccessDeniedAceEx(acl, flags, mask, sid) ==
    ReorderACL(Append(acl, Ace(ACCESS_DENIED, flags, mask, sid)))

\* Mutant: the entry at the head of the list is the one removed.
DeleteAce_RemovesFirst(acl, i) == Tail(acl)

\* dacl.DeleteAce(i), i counted from 0.
DeleteAce(acl, i) == SubSeq(acl, 1, i) \o SubSeq(acl, i + 2, Len(acl))

----------------------------------------------------------------------------
(* Directory._set_flags                                                     *)

\* Mutant: the DACL is protected whatever `inherits` says.
set_flags_AlwaysProtects(inherits, propagation) ==
    <<BitOr(DACL_SECURITY_INFORMATION, PROTECTED_DACL_SECURITY_INFORMATION),
      IF propagation THEN BitOr(CONTAINER_INHERIT_ACE, OBJECT_INHERIT_ACE)
      ELSE NO_INHERITANCE>>

\* <<security_information_flags, propagation_flags>>
set_flags(inherits, propagation) ==
    LET propagation_flags ==
            IF propagation
            THEN BitOr(CONTAINER_INHERIT_ACE, OBJECT_INHERIT_ACE)
            ELSE NO_INHERITANCE
        security_information_flags ==
            IF ~inherits
            THEN BitOr(DACL_SECURITY_INFORMATION, PROTECTED_DACL_SECURITY_INFORMATION)
            ELSE BitOr(DACL_SECURITY_INFORMATION, UNPROTECTED_DACL_SECURITY_INFORMATION)
    IN  <<security_information_flags, propagation_flags>>

----------------------------------------------------------------------------
(* The security subsystem: writing a DACL back to an object.                *)
(* A file-system state is a record [dacl, protected, sdflags].              *)

\* SetFileSecurity / SetNamedSecurityInfo(path, flags, dacl): the DACL of the
\* object is replaced; the PROTECTED flag protects it, the UNPROTECTED flag
\* unprotects it, and without either its protection stays as it is.
WriteDacl(fs, path, flags, acl) ==
    [dacl |-> [fs.dacl EXCEPT ![path] = acl],
     protected |->
        [fs.protected EXCEPT ![path] =
            IF HasFlag(flags, PROTECTED_DACL_SECURITY_INFORMATION) THEN TRUE
            ELSE IF HasFlag(flags, UNPROTECTED_DACL_SECURITY_INFORMATION) THEN FALSE
            ELSE @],
     sdflags |-> [fs.sdflags EXCEPT ![path] = flags]]

----------------------------------------------------------------------------
(* Directory._reset_permissions                                             *)

\* Mutant: the two entries are added to the DACL the object already has.
reset_permissions_at_KeepsEntries(fs, path) ==
    LET propagation_flags == set_flags(FALSE, TRUE)[2]
        dacl1 == AddAccessAllowedAceEx(fs.dacl[path], propagation_flags,
                                       FILE_ALL_ACCESS, NT_AUTHORITY)
        dacl2 == AddAccessAllowedAceEx(dacl1, propagation_flags, FILE_ALL_ACCESS,
                                       ADMINS)
    IN  WriteDacl(fs, path, DACL_SECURITY_INFORMATION, dacl2)

\* Mutant: the write passes the descriptor flags _set_flags computed.
reset_permissions_at_Protects(fs, path) ==
    LET flags == set_flags(FALSE, TRUE)
        dacl1 == AddAccessAllowedAceEx(<<>>, flags[2], FILE_ALL_ACCESS, NT_AUTHORITY)
        dacl2 == AddAccessAllowedAceEx(dacl1, flags[2], FILE_ALL_ACCESS, ADMINS)
    IN  WriteDacl(fs, path, flags[1], dacl2)

reset_permissions_at(fs, path) ==
    LET propagation_flags == set_flags(FALSE, TRUE)[2]
        dacl0 == <<>>
        dacl1 == AddAccessAllowedAceEx(dacl0, propagation_flags, FILE_ALL_ACCESS,
                                       NT_AUTHORITY)
        dacl2 == AddAccessAllowedAceEx(dacl1, propagation_flags, FILE_ALL_ACCESS,
                                       ADMINS)
    IN  WriteDacl(fs, path, DACL_SECURITY_INFORMATION, dacl2)

----------------------------------------------------------------------------
(* Directory.reset_user_permissions                                         *)

\* Mutant: the index also advances after a deletion.
RECURSIVE StripLoop_SkipsAfterDelete(_, _, _, _)
StripLoop_SkipsAfterDelete(acl, i, ace_count, user_or_group) ==
    IF i < ace_count
    THEN IF LookupAccountSid(acl[i + 1].sid) = LookupAccountSid(user_or_group)
         THEN StripLoop_SkipsAfterDelete(DeleteAce(acl, i), i + 1, ace_count - 1,
                                         user_or_group)
         ELSE StripLoop_SkipsAfterDelete(acl, i + 1, ace_count, user_or_group)
    ELSE acl

\* The while loop: i is the index under inspection, ace_count the running
\* number of entries.
RECURSIVE StripLoop(_, _, _, _)
StripLoop(acl, i, ace_count, user_or_group) ==
    IF i < ace_count
    THEN IF LookupAccountSid(acl[i + 1].sid) = LookupAccountSid(user_or_group)
         THEN StripLoop(DeleteAce(acl, i), i, ace_count - 1, user_or_group)
         ELSE StripLoop(acl, i + 1, ace_count, user_or_group)
    ELSE acl

\* The dacl.GetAce(i) calls of the while loop, in order: the index asked for
\* and the number of entries the ACL holds at that moment.
RECURSIVE StripReads(_, _, _, _)
StripReads(acl, i, ace_count, user_or_group) ==
    IF i < ace_count
    THEN <<[i |-> i, count |-> Len(acl)]>> \o
         (IF LookupAccountSid(acl[i + 1].sid) = LookupAccountSid(user_or_group)
          THEN StripReads(DeleteAce(acl, i), i, ace_count - 1, user_or_group)
          ELSE StripReads(acl, i + 1, ace_count, user_or_group))
    ELSE <<>>

reset_user_permissions(fs, path, user_or_group) ==
    WriteDacl(fs, path, DACL_SECURITY_INFORMATION,
              StripLoop(fs.dacl[path], 0, Len(fs.dacl[path]), user_or_group))

----------------------------------------------------------------------------
(* Directory._grant_permission and Directory._deny_permission               *)

\* Mutant: the entry is added as an access-denied entry.
grant_permission_AddsDenied(fs, user_or_group, path, permissions, inherits, propagation) ==
    LET flags == set_flags(inherits, propagation)
    IN  WriteDacl(fs, path, flags[1],
                  AddAccessDeniedAceEx(fs.dacl[path], flags[2],
                                       PermValue(permissions), user_or_group))

\* Mutant: DELETE is refused and nothing is written.
grant_permission_RejectsDelete(fs, user_or_group, path, permissions, inherits, propagation) ==
    LET flags == set_flags(inherits, propagation)
    IN  IF permissions = "DELETE" THEN fs
        ELSE WriteDacl(fs, path, flags[1],
                       AddAccessAllowedAceEx(fs.dacl[path], flags[2],
                                             PermValue(permissions), user_or_group))

grant_permission(fs, user_or_group, path, permissions, inherits, propagation) ==
    LET flags == set_flags(inherits, propagation)
    IN  WriteDacl(fs, path, flags[1],
                  AddAccessAllowedAceEx(fs.dacl[path], flags[2],
                                        PermValue(permissions), user_or_group))

deny_permission(fs, user_or_group, path, permissions, inherits, propagation) ==
    LET flags == set_flags(inherits, propagation)
    IN  WriteDacl(fs, path, flags[1],
                  AddAccessDeniedAceEx(fs.dacl[path], flags[2],
                                       PermValue(permissions), user_or_group))

\* The DACL of the security descriptor _grant_permission returns.
grant_permission_returns(fs, user_or_group, path, permissions, inherits, propagation) ==
    LET propagation_flags == set_flags(inherits, propagation)[2]
        dacl0 == fs.dacl[path]
    IN  AddAccessAllowedAceEx(dacl0, propagation_flags, PermValue(permissions),
                              user_or_group)

\* The DACL of the security descriptor _deny_permission returns.
deny_permission_returns(fs, user_or_group, path, permissions, inherits, propagation) ==
    LET propagation_flags == set_flags(inherits, propagation)[2]
        dacl0 == fs.dacl[path]
    IN  AddAccessDeniedAceEx(dacl0, propagation_flags, PermValue(permissions),
                             user_or_group)

----------------------------------------------------------------------------
(* The descriptor-level calls an operation issues.                          *)

Call(call, path, sid, permissions, inherits, propagation) ==
    [call |-> call, path |-> path, sid |-> sid, permissions |-> permissions,
     inherits |-> inherits, propagation |-> propagation]

StripCall(path, sid) == Call("reset_user_permissions", path, sid, "-", FALSE, FALSE)
GrantCall(path, sid, permissions, inherits, propagation) ==
    Call("_grant_permission", path, sid, permissions, inherits, propagation)
DenyCall(path, sid, permissions, inherits, propagation) ==
    Call("_deny_permission", path, sid, permissions, inherits, propagation)
ResetCall(path) == Call("_reset_permissions", path, "-", "-", FALSE, TRUE)
LookupCall(name) == Call("LookupAccountName", "-", name, "-", FALSE, FALSE)

\* The effect of one call on the file-system state.
ApplyCall(fs, c) ==
    CASE c.call = "reset_user_permissions" ->
            reset_user_permissions(fs, c.path, c.sid)
      [] c.call = "_grant_permission" ->
            grant_permission(fs, c.sid, c.path, c.permissions, c.inherits,
                             c.propagation)
      [] c.call = "_deny_permission" ->
            deny_permission(fs, c.sid, c.path, c.permissions, c.inherits,
                            c.propagation)
      [] c.call = "_reset_permissions" -> reset_permissions_at(fs, c.path)
      [] OTHER -> fs

RECURSIVE ApplyCalls(_, _, _)
ApplyCalls(fs, calls, i) ==
    IF i > Len(calls) THEN fs ELSE ApplyCalls(ApplyCall(fs, calls[i]), calls, i + 1)

----------------------------------------------------------------------------
(* Directory.reset_permissions and Directory.give_permission                *)

\* Mutant: the directory above is a target as well.
Targets_IncludesParent(self, recursive) ==
    <<Parent(self)>> \o (IF recursive THEN list_subdirectories_recurs(self) ELSE <<self>>)

\* `targets`: the list [self.path], or the generator over the tree.
Targets(self, recursive) ==
    IF recursive THEN list_subdirectories_recurs(self) ELSE <<self>>

\* What a further `for target in targets` loop iterates over once a first
\* loop has run to its end: a list is iterated again from its start, a
\* generator is exhausted and yields nothing more.
TargetsAgain(self, recursive) ==
    IF recursive THEN <<>> ELSE <<self>>

\* Mutant: a recursive call resets the directory itself as well.
reset_permissions_calls_IncludesSelf(self, recursive) ==
    LET targets == IF recursive THEN <<self>> \o Targets(self, recursive)
                   ELSE Targets(self, recursive)
    IN  [i \in 1..Len(targets) |-> ResetCall(targets[i])]

reset_permissions_calls(self, recursive) ==
    LET targets == Targets(self, recursive)
    IN  [i \in 1..Len(targets) |-> ResetCall(targets[i])]

\* Mutant: DELETE passes the test.
ValidPermission_AllowsDelete(permissions) == permissions \in Permissions

\* The test that opens give_permission: its argument is a member of
\* Permissions other than DELETE (a non-member fails the `in` test or makes
\* it raise TypeError, both ending in NotAValidPermission).
ValidPermission(permissions) ==
    ~(permissions \notin Permissions \/ permissions = "DELETE")

\* Mutant: the Deny of DELETE on the top-level directory keeps the default
\* propagation.
give_permission_calls_DenyPropagates(self, sid, permissions, recursive) ==
    LET targets == Targets(self, recursive)
        again == TargetsAgain(self, recursive)
        strips == [i \in 1..Len(targets) |-> StripCall(targets[i], sid)]
    IN  strips \o
        (CASE permissions = "MODIFY_PROTECTED" ->
                [i \in 1..Len(again) |-> GrantCall(again[i], sid, "MODIFY", TRUE, TRUE)]
                \o <<DenyCall(self, sid, "DELETE", TRUE, TRUE)>>
           [] permissions = "FULL_DENY" ->
                [i \in 1..Len(again) |->
                    DenyCall(again[i], sid, "FULL_CONTROL", TRUE, TRUE)]
           [] OTHER ->
                [i \in 1..Len(again) |-> GrantCall(again[i], sid, permissions, TRUE, TRUE)])

\* Mutant: the strip loop runs after the level has been applied.
give_permission_calls_StripsLast(self, sid, permissions, recursive) ==
    LET targets == Targets(self, recursive)
        strips == [i \in 1..Len(targets) |-> StripCall(targets[i], sid)]
    IN  (CASE permissions = "MODIFY_PROTECTED" ->
                [i \in 1..Len(targets) |-> GrantCall(targets[i], sid, "MODIFY", TRUE, TRUE)]
                \o <<DenyCall(self, sid, "DELETE", TRUE, FALSE)>>
           [] permissions = "FULL_DENY" ->
                [i \in 1..Len(targets) |->
                    DenyCall(targets[i], sid, "FULL_CONTROL", TRUE, TRUE)]
           [] OTHER ->
                [i \in 1..Len(targets) |-> GrantCall(targets[i], sid, permissions, TRUE, TRUE)])
        \o strips

\* Mutant: FULL_DENY is handed to _deny_permission as it is.
give_permission_calls_PassesPolicy(self, sid, permissions, recursive) ==
    LET targets == Targets(self, recursive)
        again == TargetsAgain(self, recursive)
        strips == [i \in 1..Len(targets) |-> StripCall(targets[i], sid)]
    IN  strips \o
        (CASE permissions = "MODIFY_PROTECTED" ->
                [i \in 1..Len(again) |-> GrantCall(again[i], sid, "MODIFY", TRUE, TRUE)]
                \o <<DenyCall(self, sid, "DELETE", TRUE, FALSE)>>
           [] permissions = "FULL_DENY" ->
                [i \in 1..Len(again) |->
                    DenyCall(again[i], sid, "FULL_DENY", TRUE, TRUE)]
           [] OTHER ->
                [i \in 1..Len(again) |-> GrantCall(again[i], sid, permissions, TRUE, TRUE)])

\* The calls give_permission issues after validation and look-up.
give_permission_calls(self, sid, permissions, recursive) ==
    LET targets == Targets(self, recursive)
        again == TargetsAgain(self, recursive)
        strips == [i \in 1..Len(targets) |-> StripCall(targets[i], sid)]
    IN  strips \o
        (CASE permissions = "MODIFY_PROTECTED" ->
                [i \in 1..Len(again) |-> GrantCall(again[i], sid, "MODIFY", TRUE, TRUE)]
                \o <<DenyCall(self, sid, "DELETE", TRUE, FALSE)>>
           [] permissions = "FULL_DENY" ->
                [i \in 1..Len(again) |->
                    DenyCall(again[i], sid, "FULL_CONTROL", TRUE, TRUE)]
           [] OTHER ->
                [i \in 1..Len(again) |-> GrantCall(again[i], sid, permissions, TRUE, TRUE)])

----------------------------------------------------------------------------
(* State, initial states and operations.                                    *)

Op(op, self, name, permissions, recursive, inherits, propagation, result) ==
    [op |-> op, self |-> self, name |-> name, permissions |-> permissions,
     recursive |-> recursive, inherits |-> inherits, propagation |-> propagation,
     result |-> result]

NoOp == Op("-", "-", "-", "-", FALSE, FALSE, FALSE, "-")

\* An exception: its type, the path its message names ("-": none) and the
\* error of the operating system it reports ("-": none).
Exception(type, path, cause) == [type |-> type, path |-> path, cause |-> cause]

NoException == Exception("-", "-", "-")

\* raise NotAValidPermission("The permission isn't valid.")
NotAValidPermission == Exception("NotAValidPermission", "-", "-")

\* The pywintypes.error a win32security call raises: (winerror, function
\* name, message of the system), no path among them.
Win32Error == Exception("pywintypes.error", "-", "pywintypes.error")

\* raise OSError('Failed to read security for file: {0}. {1}'.format(path, e))
FailedToRead(path) == Exception("OSError", path, "pywintypes.error")

\* The two entries _reset_permissions installs.
Baseline ==
    reset_permissions_at([dacl |-> [p \in Paths |-> <<>>],
                          protected |-> [p \in Paths |-> FALSE],
                          sdflags |-> [p \in Paths |-> 0]], Root).dacl[Root]

\* Descriptors an object can hold before the engine first touches it.
BaselineAndRead ==
    Baseline \o <<Ace(ACCESS_ALLOWED, 3, PermValue("READ"), STUDENTS)>>

Mixed ==
    <<Ace(ACCESS_DENIED, 0, PermValue("DELETE"), STUDENTS),
      Ace(ACCESS_ALLOWED, 3, PermValue("READ"), EVERYONE),
      Ace(ACCESS_ALLOWED, 3, PermValue("MODIFY"), STUDENTS),
      Ace(ACCESS_ALLOWED, 0, PermValue("READ_WRITE"), STUDENTS)>>

PriorDacls(path) ==
    IF path = Root THEN {<<>>, Baseline, BaselineAndRead, Mixed}
    ELSE {Baseline, Mixed}

Names == {"students", "ghost"}

FS == [dacl |-> dacl, protected |-> protected, sdflags |-> sdflags]

WithinBounds(fs) == \A p \in Paths : Len(fs.dacl[p]) <= MaxAces

\* An operation ran its calls to the end.
Completes(op, calls) ==
    LET fs == ApplyCalls(FS, calls, 1)
    IN  /\ WithinBounds(fs)
        /\ dacl' = fs.dacl
        /\ protected' = fs.protected
        /\ sdflags' = fs.sdflags
        /\ pre' = FS
        /\ last' = op
        /\ log' = calls
        /\ raised' = NoException
        /\ UNCHANGED <<arg, beside>>

\* Mutant: the directory is reset before the exception leaves.
Raises_AfterReset(op, calls) ==
    LET fs == reset_permissions_at(FS, Root)
    IN  /\ dacl' = fs.dacl
        /\ protected' = fs.protected
        /\ sdflags' = fs.sdflags
        /\ pre' = FS
        /\ last' = op
        /\ log' = calls
        /\ raised' = (IF op.result = "NotAValidPermission" THEN NotAValidPermission
                      ELSE Win32Error)
        /\ UNCHANGED <<arg, beside>>

\* An operation raised after the calls `calls`, none of which wrote anything.
Raises(op, calls) ==
    /\ pre' = FS
    /\ last' = op
    /\ log' = calls
    /\ raised' = (IF op.result = "NotAValidPermission" THEN NotAValidPermission
                  ELSE Win32Error)
    /\ UNCHANGED <<dacl, protected, sdflags, arg, beside>>

\* The exception that leaves a descriptor call when the system refuses to
\* read (stage "read") or to write (stage "write") the descriptor: only
\* _grant_permission and _deny_permission catch anything, and only around
\* their read.
RaisedBy(c, stage) ==
    IF c.call \in {"_grant_permission", "_deny_permission"} /\ stage = "read"
    THEN FailedToRead(c.path)
    ELSE Win32Error

\* Mutant: the call that fails has written its descriptor all the same.
Fails_KeepsFailedWrite(op, calls, k, stage) ==
    LET fs == ApplyCalls(FS, SubSeq(calls, 1, k), 1)
    IN  /\ WithinBounds(fs)
        /\ dacl' = fs.dacl
        /\ protected' = fs.protected
        /\ sdflags' = fs.sdflags
        /\ pre' = FS
        /\ last' = [op EXCEPT !.result = RaisedBy(calls[k], stage).type]
        /\ log' = SubSeq(calls, 1, k)
        /\ raised' = RaisedBy(calls[k], stage)
        /\ UNCHANGED <<arg, beside>>

\* An operation whose k-th call fails at `stage`: the calls before it ran to
\* their end, the k-th wrote nothing, and its exception leaves the operation.
Fails(op, calls, k, stage) ==
    LET fs == ApplyCalls(FS, SubSeq(calls, 1, k - 1), 1)
    IN  /\ WithinBounds(fs)
        /\ dacl' = fs.dacl
        /\ protected' = fs.protected
        /\ sdflags' = fs.sdflags
        /\ pre' = FS
        /\ last' = [op EXCEPT !.result = RaisedBy(calls[k], stage).type]
        /\ log' = SubSeq(calls, 1, k)
        /\ raised' = RaisedBy(calls[k], stage)
        /\ UNCHANGED <<arg, beside>>

----------------------------------------------------------------------------
(* The Directory facade: one Directory object, for Root.                    *)

NoArg == [path |-> "-", sid |-> "-", permissions |-> "-", inherits |-> FALSE,
          propagation |-> FALSE]

\* Nothing beside the descriptors of the tree takes part.
NothingBeside ==
    /\ files = {}
    /\ self_path = <<>>
    /\ shares = {}
    /\ fetched = <<>>

Init ==
    /\ dacl \in [Paths -> UNION {PriorDacls(p) : p \in Paths}]
    /\ \A p \in Paths : dacl[p] \in PriorDacls(p)
    /\ protected = [p \in Paths |-> FALSE]
    /\ sdflags = [p \in Paths |-> 0]
    /\ pre = FS
    /\ last = NoOp
    /\ log = <<>>
    /\ raised = NoException
    /\ arg = NoArg
    /\ NothingBeside

\* Directory(self).give_permission(name, permissions, recursive=recursive)
GivePermission(self, name, permissions, recursive) ==
    LET op(result) == Op("give_permission", self, name, permissions, recursive,
                         TRUE, TRUE, result)
        sid == LookupAccountName(name)
    IN  IF ~ValidPermission(permissions)
        THEN Raises(op("NotAValidPermission"), <<>>)
        ELSE IF sid = ""
        THEN Raises(op("pywintypes.error"), <<LookupCall(name)>>)
        ELSE Completes(op("ok"),
                       <<LookupCall(name)>> \o
                       give_permission_calls(self, sid, permissions, recursive))

\* Directory(self).reset_permissions(recursive=recursive)
ResetPermissions(self, recursive) ==
    Completes(Op("reset_permissions", self, "-", "-", recursive, FALSE, TRUE, "ok"),
              reset_permissions_calls(self, recursive))

Next ==
    \/ \E name \in Names, permissions \in Permissions \cup NotPermissions,
          recursive \in BOOLEAN :
            GivePermission(Root, name, permissions, recursive)
    \/ \E recursive \in BOOLEAN : ResetPermissions(Root, recursive)

Spec == Init /\ [][Next]_vars

----------------------------------------------------------------------------
(* The Directory facade on a system that can refuse a descriptor access.    *)

\* The stages of a descriptor call at which the system can refuse.
Stages == {"read", "write"}

\* Levels that between them take every branch of give_permission: the two
\* policies and two of the levels of the final else.
GivenLevels == {"READ", "MODIFY", "MODIFY_PROTECTED", "FULL_DENY"}

\* Directory(self).give_permission(name, permissions, recursive=recursive),
\* the k-th descriptor call of which is refused at `stage`.
GivePermissionFails(self, name, permissions, recursive, k, stage) ==
    LET sid == LookupAccountName(name)
        calls == give_permission_calls(self, sid, permissions, recursive)
    IN  /\ ValidPermission(permissions)
        /\ sid # ""
        /\ Fails(Op("give_permission", self, name, permissions, recursive, TRUE,
                    TRUE, "-"),
                 <<LookupCall(name)>> \o calls, k + 1, stage)

NextFaulty ==
    \/ \E permissions \in GivenLevels, recursive \in BOOLEAN :
            GivePermission(Root, "students", permissions, recursive)
    \/ \E permissions \in GivenLevels, recursive \in BOOLEAN, stage \in Stages :
            \E k \in 1..Len(give_permission_calls(Root, STUDENTS, permissions, recursive)) :
                GivePermissionFails(Root, "students", permissions, recursive, k, stage)

\* The tree before the first call: the directory holds the baseline or
\* entries of several principals, and so does everything beneath it.
InitFaulty ==
    /\ dacl \in [Paths -> {Baseline, Mixed}]
    /\ \A p, q \in Beneath(Root) : dacl[p] = dacl[q]
    /\ protected = [p \in Paths |-> FALSE]
    /\ sdflags = [p \in Paths |-> 0]
    /\ pre = FS
    /\ last = NoOp
    /\ log = <<>>
    /\ raised = NoException
    /\ arg = NoArg
    /\ NothingBeside

SpecFaulty == InitFaulty /\ [][NextFaulty]_vars

----------------------------------------------------------------------------
(* One Directory object for a directory that has paths beside and above    *)
(* it, and resets of the directory in between.                              *)

Subdir == "a/b"

NextFrame ==
    \/ \E permissions \in GivenLevels, recursive \in BOOLEAN :
            GivePermission(Subdir, "students", permissions, recursive)
    \/ \E recursive \in BOOLEAN : ResetPermissions(Subdir, recursive)

SpecFrame == InitFaulty /\ [][NextFrame]_vars

----------------------------------------------------------------------------
(* The descriptor mutator called directly: one caller working on one object *)
(* with one set of arguments, drawn when the behaviour starts.              *)

\* The levels that carry an access mask (the docstrings of _grant_permission
\* and _deny_permission: Read, Write, Modify, Delete or Full Control).
MaskLevels == {"READ", "READ_WRITE", "DELETE", "MODIFY", "FULL_CONTROL"}

MutatorPaths == {Root, "a/b/3.txt"}

InitMutator ==
    /\ arg \in [path : MutatorPaths, sid : {STUDENTS, EVERYONE},
                permissions : MaskLevels, inherits : BOOLEAN, propagation : BOOLEAN]
    /\ dacl \in [Paths -> PriorDacls(Root)]
    /\ \A p \in Paths \ {arg.path} : dacl[p] = Baseline
    /\ protected \in [Paths -> BOOLEAN]
    /\ \A p \in Paths \ {arg.path} : protected[p] = FALSE
    /\ sdflags = [p \in Paths |-> 0]
    /\ pre = FS
    /\ last = NoOp
    /\ log = <<>>
    /\ raised = NoException
    /\ NothingBeside

DirectOp(op) ==
    Op(op, arg.path, arg.sid, arg.permissions, FALSE, arg.inherits, arg.propagation,
       "ok")

\* Directory._grant_permission(user_or_group=, path=, permissions=, inherits=,
\* propagation=)
GrantPermission ==
    Completes(DirectOp("_grant_permission"),
              <<GrantCall(arg.path, arg.sid, arg.permissions, arg.inherits,
                          arg.propagation)>>)

\* Directory._deny_permission(...)
DenyPermission ==
    Completes(DirectOp("_deny_permission"),
              <<DenyCall(arg.path, arg.sid, arg.permissions, arg.inherits,
                         arg.propagation)>>)

\* Directory.reset_user_permissions(path, user_or_group)
ResetUserPermissions ==
    Completes(DirectOp("reset_user_permissions"), <<StripCall(arg.path, arg.sid)>>)

\* Directory._reset_permissions(path)
ResetPermissionsAt ==
    Completes(DirectOp("_reset_permissions"), <<ResetCall(arg.path)>>)

NextMutator ==
    \/ GrantPermission
    \/ DenyPermission
    \/ ResetUserPermissions
    \/ ResetPermissionsAt

SpecMutator == InitMutator /\ [][NextMutator]_vars

----------------------------------------------------------------------------
(* The files on disk and the operations of filesystem.py that create, move  *)
(* and copy them.  A place on disk is the sequence of the names on its      *)
(* path; the disk maps every place that exists to what lies there: its      *)
(* kind, its content (files) and its descriptor.  <<>> is the drive.        *)

\* An operation that would leave more files and directories than this on disk
\* is not taken.
MaxFiles == 4

\* The paths a caller constructs a Directory on, as the caller spells them:
\* absolute, some with "." among their names.
Spellings == {<<"a">>, <<"b">>, <<".", "b">>, <<"a", ".", "b">>, <<"b", "a">>}

\* The paths a caller copies from, and those it moves and copies to.
Sources == {<<"a">>, <<"a", "b">>, <<"b">>}
Destinations == {<<"b">>, <<"b", "a">>}

NewDir == [kind |-> "dir", content |-> "-", dacl |-> <<>>, protected |-> FALSE]
NewFile(content) ==
    [kind |-> "file", content |-> content, dacl |-> <<>>, protected |-> FALSE]

\* os.path.abspath on an absolute path: the "." names are dropped.
RECURSIVE abspath(_)
abspath(path) ==
    IF path = <<>> THEN <<>>
    ELSE IF Head(path) = "." THEN abspath(Tail(path))
    ELSE <<Head(path)>> \o abspath(Tail(path))

\* os.path.dirname and os.path.basename
dirname(path) == SubSeq(path, 1, Len(path) - 1)
basename(path) == path[Len(path)]

\* The place d is the place p or lies above it.
IsPrefix(d, p) == Len(d) <= Len(p) /\ SubSeq(p, 1, Len(d)) = d

\* file_or_dir_exists(path): os.path.exists(path)
file_or_dir_exists(disk, path) == path = <<>> \/ path \in DOMAIN disk

\* os.path.isdir(path)
isdir(disk, path) ==
    path = <<>> \/ (path \in DOMAIN disk /\ disk[path].kind = "dir")

\* How a call of the standard library ends: the disk it leaves and the
\* exception it raises ("-": none).
Done(disk) == [files |-> disk, error |-> "-"]
Failed(disk, error) == [files |-> disk, error |-> error]

\* os.mkdir(path): the directory above must exist, the path must not.
os_mkdir(disk, path) ==
    IF file_or_dir_exists(disk, path) THEN Failed(disk, "FileExistsError")
    ELSE IF ~isdir(disk, dirname(path)) THEN Failed(disk, "FileNotFoundError")
    ELSE Done(disk @@ (path :> NewDir))

\* os.makedirs(path, exist_ok=True): every missing directory down to path is
\* created; it raises when a file lies at path or above it.
RECURSIVE makedirs(_, _)
makedirs(disk, path) ==
    IF isdir(disk, path) THEN Done(disk)
    ELSE IF file_or_dir_exists(disk, path) THEN Failed(disk, "FileExistsError")
    ELSE LET above == makedirs(disk, dirname(path))
         IN  IF above.error # "-" THEN above
             ELSE Done(above.files @@ (path :> NewDir))

\* os.rename of a whole tree: what lay at src and beneath lies at dst and
\* beneath, descriptors included; a file at dst is replaced.
Relocate(disk, src, dst) ==
    LET moved == {q \in DOMAIN disk : IsPrefix(src, q)}
        stay == (DOMAIN disk \ moved) \ {dst}
        to(q) == dst \o SubSeq(q, Len(src) + 1, Len(q))
        from(q) == src \o SubSeq(q, Len(dst) + 1, Len(q))
    IN  [q \in stay \cup {to(m) : m \in moved} |->
            IF IsPrefix(dst, q) THEN disk[from(q)] ELSE disk[q]]

\* shutil.move(src, dst): a destination that is a directory receives the
\* source inside it, under the source's own name; it raises when that name
\* is taken there, when a directory would replace a file and when a
\* directory would move into itself.
shutil_move(disk, src, dst) ==
    LET real_dst == IF isdir(disk, dst) /\ dst # src THEN dst \o <<basename(src)>>
                    ELSE dst
    IN  IF ~file_or_dir_exists(disk, src) THEN Failed(disk, "FileNotFoundError")
        ELSE IF isdir(disk, dst) /\ dst = src THEN Done(disk)
        ELSE IF isdir(disk, dst) /\ file_or_dir_exists(disk, real_dst)
        THEN Failed(disk, "shutil.Error")
        ELSE IF isdir(disk, src) /\ IsPrefix(src, real_dst)
        THEN Failed(disk, "shutil.Error")
        ELSE IF isdir(disk, src) /\ file_or_dir_exists(disk, real_dst)
        THEN Failed(disk, "FileExistsError")
        ELSE Done(Relocate(disk, src, real_dst))

\* shutil.copy(src, dst): copies the content of the file src to the file
\* dst, or into the directory dst under the source's own name; it raises
\* when src is a directory, when a directory lies where the copy would go
\* and when source and destination are the same file.
shutil_copy(disk, src, dst) ==
    LET real_dst == IF isdir(disk, dst) THEN dst \o <<basename(src)>> ELSE dst
    IN  IF real_dst = src THEN Failed(disk, "SameFileError")
        ELSE IF isdir(disk, src) THEN Failed(disk, "IsADirectoryError")
        ELSE IF isdir(disk, real_dst) THEN Failed(disk, "IsADirectoryError")
        ELSE IF file_or_dir_exists(disk, real_dst)
        THEN Done([disk EXCEPT ![real_dst].content = disk[src].content])
        ELSE Done(disk @@ (real_dst :> NewFile(disk[src].content)))

\* Directory._reset_permissions(path) on the object at a place.
reset_permissions_place(disk, path) ==
    LET fs == reset_permissions_at([dacl |-> (path :> disk[path].dacl),
                                    protected |-> (path :> disk[path].protected),
                                    sdflags |-> (path :> 0)], path)
    IN  [disk EXCEPT ![path].dacl = fs.dacl[path],
                     ![path].protected = fs.protected[path]]

CreateCall(path) == Call("create_dir", path, "-", "-", FALSE, FALSE)

\* How an operation on files ends: the disk and the Directory object it
\* leaves, the calls it issued and what it returned or raised.
Outcome(disk, path, calls, result) ==
    [files |-> disk, self_path |-> path, log |-> calls, result |-> result]

\* Mutant: a directory the constructor has just created is not reset.
Directory_init_ResetsOnlyExisting(disk, self, path_to_dir, reset_perms) ==
    LET path == abspath(path_to_dir)
        missing == ~file_or_dir_exists(disk, path)
        made == IF missing THEN os_mkdir(disk, path) ELSE Done(disk)
        created == IF missing THEN <<CreateCall(path)>> ELSE <<>>
    IN  IF made.error # "-" THEN Outcome(made.files, self, created, made.error)
        ELSE IF reset_perms /\ ~missing
        THEN Outcome(reset_permissions_place(made.files, path), path,
                     created \o <<ResetCall(path)>>, "ok")
        ELSE Outcome(made.files, path, created, "ok")

\* Directory.__init__(path_to_dir, reset_perms); `self` is the path of the
\* object the caller held before, which it keeps when the constructor raises.
Directory_init(disk, self, path_to_dir, reset_perms) ==
    LET path == abspath(path_to_dir)
        missing == ~file_or_dir_exists(disk, path)
        made == IF missing THEN os_mkdir(disk, path) ELSE Done(disk)
        created == IF missing THEN <<CreateCall(path)>> ELSE <<>>
    IN  IF made.error # "-" THEN Outcome(made.files, self, created, made.error)
        ELSE IF reset_perms
        THEN Outcome(reset_permissions_place(made.files, path), path,
                     created \o <<ResetCall(path)>>, "ok")
        ELSE Outcome(made.files, path, created, "ok")

\* Directory.move_dir_to(destination, overwrite)
move_dir_to(disk, self, destination, overwrite) ==
    IF (~file_or_dir_exists(disk, destination)) \/ overwrite
    THEN LET above == makedirs(disk, dirname(destination))
             moved == shutil_move(above.files, self, destination)
         IN  IF above.error # "-" THEN Outcome(above.files, self, <<>>, above.error)
             ELSE IF moved.error # "-"
             THEN Outcome(moved.files, self, <<>>, moved.error)
             ELSE Outcome(moved.files, destination, <<>>, "True")
    ELSE Outcome(disk, self, <<>>, "False")

\* copy_to(source_path, destination_path, overwrite=overwrite)
copy_to(disk, self, source_path, destination_path, overwrite) ==
    LET exists == file_or_dir_exists(disk, source_path)
    IN  IF exists /\ (overwrite \/ ~file_or_dir_exists(disk, destination_path))
        THEN LET above == makedirs(disk, dirname(destination_path))
                 copied == shutil_copy(above.files, source_path, destination_path)
             IN  IF above.error # "-"
                 THEN Outcome(above.files, self, <<>>, above.error)
                 ELSE IF copied.error # "-"
                 THEN Outcome(copied.files, self, <<>>, copied.error)
                 ELSE Outcome(copied.files, self, <<>>, "True")
        ELSE Outcome(disk, self, <<>>, "False")

\* An operation on files: its name, its arguments and what it returned.
FileOp(op, source, destination, overwrite, reset_perms, result) ==
    [op |-> op, source |-> source, destination |-> destination,
     overwrite |-> overwrite, reset_perms |-> reset_perms, result |-> result]

Disk == [files |-> files, self_path |-> self_path]

\* The operation `op` ran and ended as `outcome` says.
Ends(op, outcome) ==
    /\ Cardinality(DOMAIN outcome.files) <= MaxFiles
    /\ files' = outcome.files
    /\ self_path' = outcome.self_path
    /\ pre' = Disk
    /\ last' = [op EXCEPT !.result = outcome.result]
    /\ log' = outcome.log
    /\ raised' = (IF outcome.result \in {"ok", "True", "False"} THEN NoException
                  ELSE Exception(outcome.result, "-", "-"))
    /\ UNCHANGED <<dacl, protected, sdflags, arg, shares, fetched>>

\* Directory(path_to_dir, reset_perms)
Construct(path_to_dir, reset_perms) ==
    Ends(FileOp("__init__", path_to_dir, "-", FALSE, reset_perms, "-"),
         Directory_init(files, self_path, path_to_dir, reset_perms))

\* self.move_dir_to(destination, overwrite), on the object constructed last
MoveDirTo(destination, overwrite) ==
    /\ self_path # <<>>
    /\ Ends(FileOp("move_dir_to", self_path, destination, overwrite, FALSE, "-"),
            move_dir_to(files, self_path, destination, overwrite))

\* copy_to(source_path, destination_path, overwrite=overwrite)
CopyTo(source_path, destination_path, overwrite) ==
    Ends(FileOp("copy_to", source_path, destination_path, overwrite, FALSE, "-"),
         copy_to(files, self_path, source_path, destination_path, overwrite))

InitFiles ==
    /\ files \in {(<<"a">> :> [NewDir EXCEPT !.dacl = d]) @@
                  (<<"a", "b">> :> NewFile(c)) : d \in {<<>>, Mixed}, c \in {"x"}}
    /\ self_path = <<>>
    /\ shares = {}
    /\ fetched = <<>>
    /\ dacl = [p \in Paths |-> Baseline]
    /\ protected = [p \in Paths |-> FALSE]
    /\ sdflags = [p \in Paths |-> 0]
    /\ pre = Disk
    /\ last = FileOp("-", "-", "-", FALSE, FALSE, "-")
    /\ log = <<>>
    /\ raised = NoException
    /\ arg = NoArg

NextFiles ==
    \/ \E path_to_dir \in Spellings, reset_perms \in BOOLEAN :
            Construct(path_to_dir, reset_perms)
    \/ \E destination \in Destinations, overwrite \in BOOLEAN :
            MoveDirTo(destination, overwrite)
    \/ \E source_path \in Sources, destination_path \in Destinations,
          overwrite \in BOOLEAN :
            CopyTo(source_path, destination_path, overwrite)

SpecFiles == InitFiles /\ [][NextFiles]_vars

----------------------------------------------------------------------------
(* share.py: the shares of one server.  A share is [netname, path, remark]; *)
(* the other fields of SHARE_INFO_502 are the same for every share the     *)
(* program creates.                                                         *)

ShareNames == {"foo", "bar"}
SharePaths == {"C:/foo/bar", "C:/foo/baz"}
Remarks == {"", "testing share creation"}

Share(netname, path, remark) == [netname |-> netname, path |-> path, remark |-> remark]

ShareCall(call, netname) == [call |-> call, netname |-> netname]

\* win32net.NetShareEnum(server, 0): every share of the server and the handle
\* for what is left to enumerate, 0 as the default preferred length lets
\* the server answer in one page.
NetShareEnum(shs) == [all_shares |-> shs, new_resume_handle |-> 0]

\* share_exists(server, share_name)
share_exists(shs, share_name) ==
    LET page == NetShareEnum(shs)
    IN  share_name \in {share.netname : share \in page.all_shares}

\* win32net.NetShareDel(server, share_name), as del_share calls it.
\* Error 2310: the share does not exist.
NetShareDel(shs, share_name) ==
    IF \E s \in shs : s.netname = share_name
    THEN [shares |-> {s \in shs : s.netname # share_name}, error |-> "-"]
    ELSE [shares |-> shs, error |-> "2310"]

\* win32net.NetShareAdd(server, 502, data).  Error 2118: the name has already
\* been shared.
NetShareAdd(shs, data) ==
    IF \E s \in shs : s.netname = data.netname
    THEN [shares |-> shs, error |-> "2118"]
    ELSE [shares |-> shs \cup {data}, error |-> "-"]

\* How create_share ends: the shares it leaves, the calls it made to the
\* server and the error it raised ("-": none).
ShareOutcome(shs, calls, error) == [shares |-> shs, log |-> calls, error |-> error]

\* Mutant: an existing share is left in place when overwrite is true.
create_share_KeepsExisting(shs, path, share_name, remark, overwrite) ==
    LET enumerated == IF overwrite THEN <<ShareCall("NetShareEnum", "-")>> ELSE <<>>
        added == NetShareAdd(shs, Share(share_name, path, remark))
    IN  ShareOutcome(added.shares,
                     enumerated \o <<ShareCall("NetShareAdd", share_name)>>,
                     added.error)

\* create_share(server, path, share_name, remark, overwrite)
create_share(shs, path, share_name, remark, overwrite) ==
    LET enumerated == IF overwrite THEN <<ShareCall("NetShareEnum", "-")>> ELSE <<>>
        deletes == overwrite /\ share_exists(shs, share_name)
        deleted == IF deletes THEN NetShareDel(shs, share_name)
                   ELSE [shares |-> shs, error |-> "-"]
        calls == enumerated \o
                 (IF deletes THEN <<ShareCall("NetShareDel", share_name)>> ELSE <<>>)
        added == NetShareAdd(deleted.shares, Share(share_name, path, remark))
    IN  IF deleted.error # "-" THEN ShareOutcome(deleted.shares, calls, deleted.error)
        ELSE ShareOutcome(added.shares,
                          calls \o <<ShareCall("NetShareAdd", share_name)>>,
                          added.error)

ShareOp(op, path, share_name, remark, overwrite, result) ==
    [op |-> op, path |-> path, share_name |-> share_name, remark |-> remark,
     overwrite |-> overwrite, result |-> result]

\* A call on the shares ran and ended as `outcome` says.
ShareEnds(op, outcome) ==
    /\ shares' = outcome.shares
    /\ pre' = shares
    /\ last' = [op EXCEPT !.result = (IF outcome.error = "-" THEN "ok"
                                      ELSE outcome.error)]
    /\ log' = outcome.log
    /\ raised' = (IF outcome.error = "-" THEN NoException
                  ELSE Exception("pywintypes.error", "-", outcome.error))
    /\ UNCHANGED <<dacl, protected, sdflags, arg, files, self_path, fetched>>

\* create_share(server, path, share_name, remark, overwrite)
CreateShare(path, share_name, remark, overwrite) ==
    ShareEnds(ShareOp("create_share", path, share_name, remark, overwrite, "-"),
              create_share(shares, path, share_name, remark, overwrite))

\* del_share(server, share_name)
DelShare(share_name) ==
    LET deleted == NetShareDel(shares, share_name)
    IN  ShareEnds(ShareOp("del_share", "-", share_name, "-", FALSE, "-"),
                  ShareOutcome(deleted.shares,
                               <<ShareCall("NetShareDel", share_name)>>,
                               deleted.error))

InitShare ==
    /\ shares = {}
    /\ files = {}
    /\ self_path = <<>>
    /\ fetched = <<>>
    /\ dacl = [p \in Paths |-> Baseline]
    /\ protected = [p \in Paths |-> FALSE]
    /\ sdflags = [p \in Paths |-> 0]
    /\ pre = shares
    /\ last = ShareOp("-", "-", "-", "-", FALSE, "-")
    /\ log = <<>>
    /\ raised = NoException
    /\ arg = NoArg

NextShare ==
    \/ \E path \in SharePaths, share_name \in ShareNames, remark \in Remarks,
          overwrite \in BOOLEAN :
            CreateShare(path, share_name, remark, overwrite)
    \/ \E share_name \in ShareNames : DelShare(share_name)

SpecShare == InitShare /\ [][NextShare]_vars

----------------------------------------------------------------------------
(* dns.py: names of a domain in standard ('mynetwork.com') and in LDAP mode *)
(* ('dc=mynetwork,dc=com').  A string is the sequence of its characters.    *)

\* The strings a caller passes are made of at most this many pieces.
MaxPieces == 5

\* The pieces the strings are made of: 'dc=', a letter, a dot, a comma.
Pieces == {<<"d", "c", "=">>, <<"a">>, <<"b">>, <<".">>, <<",">>}

RECURSIVE StringsOf(_)
StringsOf(n) ==
    IF n = 0 THEN {<<>>}
    ELSE LET shorter == StringsOf(n - 1)
         IN  shorter \cup {s \o p : s \in shorter, p \in Pieces}

\* str.split(sep) for a separator of one character.
RECURSIVE split(_, _)
split(s, sep) ==
    IF \A i \in 1..Len(s) : s[i] # sep THEN <<s>>
    ELSE LET i == CHOOSE j \in 1..Len(s) :
                    s[j] = sep /\ \A k \in 1..(j - 1) : s[k] # sep
         IN  <<SubSeq(s, 1, i - 1)>> \o split(SubSeq(s, i + 1, Len(s)), sep)

\* sep.join(parts)
RECURSIVE join(_, _)
join(sep, parts) ==
    IF Len(parts) = 0 THEN <<>>
    ELSE IF Len(parts) = 1 THEN parts[1]
    ELSE parts[1] \o sep \o join(sep, Tail(parts))

\* s.replace(old, ''): every occurrence of old, found from the left, is cut.
RECURSIVE cut(_, _)
cut(s, old) ==
    IF Len(s) < Len(old) THEN s
    ELSE IF SubSeq(s, 1, Len(old)) = old THEN cut(SubSeq(s, Len(old) + 1, Len(s)), old)
    ELSE <<Head(s)>> \o cut(Tail(s), old)

DC == <<"d", "c", "=">>

\* e[:3]
First3(e) == SubSeq(e, 1, IF Len(e) < 3 THEN Len(e) ELSE 3)

\* _is_std_dns(dns)
is_std_dns(dns) == dns # <<>> /\ Len(split(dns, ".")) > 1

\* _is_ldap_dns(dns)
is_ldap_dns(dns) ==
    /\ dns # <<>>
    /\ LET es == split(dns, ",") IN \A i \in 1..Len(es) : First3(es[i]) = DC

\* raise NotAValidDNS("Not a valid DNS.")
NotAValidDNS == Exception("NotAValidDNS", "-", "-")

\* dns_ldap_path_switcher(dns): what it returns, or <<"raise">> when it
\* raises NotAValidDNS (no string holds the character "raise").
dns_ldap_path_switcher(dns) ==
    IF is_ldap_dns(dns) THEN cut(join(<<".">>, split(dns, ",")), DC)
    ELSE IF is_std_dns(dns) THEN DC \o join(<<",">> \o DC, split(dns, "."))
    ELSE <<"raise">>

DnsOp(op, dns, result) == [op |-> op, dns |-> dns, result |-> result]

\* dns_ldap_path_switcher(dns) is called.
Switches(dns) ==
    LET result == dns_ldap_path_switcher(dns)
    IN  /\ last' = DnsOp("dns_ldap_path_switcher", dns, result)
        /\ log' = Append(log, result)
        /\ raised' = (IF result = <<"raise">> THEN NotAValidDNS ELSE NoException)
        /\ pre' = dns
        /\ UNCHANGED <<dacl, protected, sdflags, arg, beside>>

\* The caller converts the name it holds.
Switch ==
    /\ log = <<>>
    /\ Switches(arg.dns)

\* The caller converts the result of the conversion.
SwitchBack ==
    /\ Len(log) = 1
    /\ raised = NoException
    /\ Switches(log[1])

InitDns ==
    /\ arg \in [dns : StringsOf(MaxPieces)]
    /\ dacl = [p \in Paths |-> Baseline]
    /\ protected = [p \in Paths |-> FALSE]
    /\ sdflags = [p \in Paths |-> 0]
    /\ pre = <<>>
    /\ last = DnsOp("-", <<>>, <<>>)
    /\ log = <<>>
    /\ raised = NoException
    /\ NothingBeside

NextDns ==
    \/ Switch
    \/ SwitchBack

SpecDns == InitDns /\ [][NextDns]_vars

----------------------------------------------------------------------------
(* Two callers of the descriptor mutator on one object.  Every mutator      *)
(* reads the descriptor (GetNamedSecurityInfo / GetFileSecurity), changes   *)
(* the copy it holds and writes it back (SetNamedSecurityInfo /             *)
(* SetFileSecurity); nothing is held between the two calls, so the steps of *)
(* two callers, and the writes of other programs, can fall in between.      *)
(* Here `log` is the sequence of the DACLs the object has held.             *)

\* A write that would be the object's descriptor number MaxWrites + 2 is not
\* taken.
MaxWrites == 3

Callers == {"A", "B"}

RacePath == Root

\* The calls a caller issues on the object.
RaceCalls ==
    {GrantCall(RacePath, STUDENTS, "READ", TRUE, TRUE),
     DenyCall(RacePath, STUDENTS, "DELETE", TRUE, FALSE),
     StripCall(RacePath, STUDENTS),
     GrantCall(RacePath, EVERYONE, "READ", TRUE, TRUE)}

\* What another program writes: the descriptor it found, with one more entry.
ExternalCall == GrantCall(RacePath, EVERYONE, "READ_WRITE", TRUE, TRUE)

\* A caller between two calls, and a caller that has read the descriptor
\* for the call `call`: `acl` is the DACL it read, `seen` the number of the
\* descriptor that was.
Idle == [call |-> NoArg, acl |-> <<>>, seen |-> 0]
Fetched(call, acl, seen) == [call |-> call, acl |-> acl, seen |-> seen]

\* Mutant: the write starts from the descriptor the object holds now.
WriteBack_Refetches(fs, call, acl) == ApplyCall(fs, call)

\* The rest of a mutator after its read returned the DACL `acl`: the change
\* is made to that DACL and the result is written to the object.
WriteBack(fs, call, acl) ==
    ApplyCall([fs EXCEPT !.dacl[call.path] = acl], call)

RaceOp(caller, call, acl, seen) ==
    [caller |-> caller, call |-> call, acl |-> acl, seen |-> seen]

\* The caller c enters a mutator, which reads the descriptor.
Fetch(c, call) ==
    /\ fetched[c] = Idle
    /\ fetched' = [fetched EXCEPT ![c] = Fetched(call, dacl[call.path], Len(log))]
    /\ UNCHANGED <<dacl, protected, sdflags, pre, last, log, raised, arg, files,
                   self_path, shares>>

\* A write of the DACL `acl` by `caller` reaches the object.
Writes(caller, call, acl, seen) ==
    LET fs == WriteBack(FS, call, acl)
    IN  /\ Len(log) <= MaxWrites
        /\ WithinBounds(fs)
        /\ dacl' = fs.dacl
        /\ protected' = fs.protected
        /\ sdflags' = fs.sdflags
        /\ pre' = FS
        /\ last' = RaceOp(caller, call, acl, seen)
        /\ log' = Append(log, fs.dacl[call.path])
        /\ raised' = NoException
        /\ UNCHANGED <<arg, files, self_path, shares>>

\* The mutator the caller c is in writes its descriptor and returns.
Write(c) ==
    /\ fetched[c] # Idle
    /\ Writes(c, fetched[c].call, fetched[c].acl, fetched[c].seen)
    /\ fetched' = [fetched EXCEPT ![c] = Idle]

\* Another program changes the descriptor of the object.
ExternalWrite ==
    /\ Writes("external", ExternalCall, dacl[RacePath], Len(log))
    /\ UNCHANGED fetched

InitRace ==
    /\ dacl \in [Paths -> {Baseline, BaselineAndRead}]
    /\ \A p \in Paths \ {RacePath} : dacl[p] = Baseline
    /\ protected = [p \in Paths |-> FALSE]
    /\ sdflags = [p \in Paths |-> 0]
    /\ pre = FS
    /\ last = RaceOp("-", NoArg, <<>>, 0)
    /\ log = <<dacl[RacePath]>>
    /\ raised = NoException
    /\ arg = NoArg
    /\ files = {}
    /\ self_path = <<>>
    /\ shares = {}
    /\ fetched = [c \in Callers |-> Idle]

NextRace ==
    \/ \E c \in Callers, call \in RaceCalls : Fetch(c, call)
    \/ \E c \in Callers : Write(c)
    \/ ExternalWrite

SpecRace == InitRace /\ [][NextRace]_vars

----------------------------------------------------------------------------
(* Vocabulary of the properties.                                            *)

\* The entries of an ACL that name the principal sid, in their order.
RECURSIVE EntriesFrom(_, _, _)
EntriesFrom(acl, sid, i) ==
    IF i > Len(acl) THEN <<>>
    ELSE (IF acl[i].sid = sid THEN <<acl[i]>> ELSE <<>>) \o EntriesFrom(acl, sid, i + 1)

EntriesOf(acl, sid) == EntriesFrom(acl, sid, 1)

\* Whether an ACL holds an Allow entry for sid.
HasAllow(acl, sid) == \E i \in 1..Len(acl) : acl[i].sid = sid /\ acl[i].type = "A"

\* How many calls of one kind a log holds.
CountCalls(calls, name) == Cardinality({i \in 1..Len(calls) : calls[i].call = name})

\* The paths a log shows a call of one kind on.
PathsCalled(calls, name) == {calls[i].path : i \in {j \in 1..Len(calls) : calls[j].call = name}}

\* The last operation was a give_permission that returned normally.
Gave(op) == op.op = "give_permission" /\ op.result = "ok"

\* The access masks of the Permission Catalog (tests/test_constants.py).
CatalogMask(level) ==
    CASE level = "READ" -> 1179785
      [] level = "READ_WRITE" -> 1180063
      [] level = "DELETE" -> 65536
      [] level = "MODIFY" -> -1072496480
      [] level = "FULL_CONTROL" -> 2032127

\* The entries for sid that one give_permission call with `level` is meant
\* to leave on its directory.
SingleCallEntries(level, sid) ==
    CASE level = "MODIFY_PROTECTED" ->
            <<[type |-> "D", flags |-> 0, mask |-> 65536, sid |-> sid],
              [type |-> "A", flags |-> 3, mask |-> -1072496480, sid |-> sid]>>
      [] level = "FULL_DENY" ->
            <<[type |-> "D", flags |-> 3, mask |-> 2032127, sid |-> sid]>>
      [] OTHER ->
            <<[type |-> "A", flags |-> 3, mask |-> CatalogMask(level), sid |-> sid]>>

\* The descriptor ResetAll is to leave: full control for the system
\* authority and for the administrators, both propagating to containers and
\* objects.
BaselineDescriptor ==
    <<[type |-> "A", flags |-> 3, mask |-> 2032127, sid |-> "S-1-5-18"],
      [type |-> "A", flags |-> 3, mask |-> 2032127, sid |-> "S-1-5-32-544"]>>

----------------------------------------------------------------------------
(* C1..C10                                                                  *)

\* C1 (as stated): after a recursive give_permission(p, READ) the directory
\* itself and every file and directory beneath it has been operated on and
\* holds exactly one Allow/Read entry for p.
C1_RecursiveReadCoversTree ==
    (Gave(last) /\ last.recursive /\ last.permissions = "READ") =>
        \A path \in {last.self} \cup Beneath(last.self) :
            LET e == EntriesOf(dacl[path], LookupAccountName(last.name))
            IN  /\ \E i \in 1..Len(log) : log[i].path = path
                /\ Len(e) = 1
                /\ e[1].type = "A"
                /\ e[1].mask = 1179785

\* C2: a non-recursive give_permission(p, level), level one of READ,
\* READ_WRITE, MODIFY, FULL_CONTROL, on a directory that held no entry for p
\* issues one Grant and no Deny and leaves one new entry, the only one for p:
\* an Allow entry with the catalogue's mask for the level.
C2_NonRecursiveGrantAddsOneAllow ==
    LET sid == LookupAccountName(last.name)
        e == EntriesOf(dacl[last.self], sid)
    IN  (/\ Gave(last) /\ ~last.recursive
         /\ last.permissions \in {"READ", "READ_WRITE", "MODIFY", "FULL_CONTROL"}
         /\ EntriesOf(pre.dacl[last.self], sid) = <<>>) =>
            /\ CountCalls(log, "_grant_permission") = 1
            /\ CountCalls(log, "_deny_permission") = 0
            /\ Len(dacl[last.self]) = Len(pre.dacl[last.self]) + 1
            /\ Len(e) = 1
            /\ e[1].type = "A"
            /\ e[1].mask = CatalogMask(last.permissions)

C2_Witness ==
    /\ Gave(last) /\ ~last.recursive /\ last.permissions = "MODIFY"
    /\ pre.dacl[Root] = BaselineDescriptor
    /\ Len(dacl[Root]) = 3
    /\ dacl[Root][3].sid = STUDENTS

\* C3: a non-recursive give_permission(p, MODIFY_PROTECTED) leaves exactly
\* two entries for p on the directory, whatever it held before: one Allow
\* with the Modify mask and one Deny with the Delete mask and no propagation
\* flags.
C3_ModifyProtectedLeavesAllowAndDeny ==
    LET e == EntriesOf(dacl[last.self], LookupAccountName(last.name))
    IN  (Gave(last) /\ ~last.recursive /\ last.permissions = "MODIFY_PROTECTED") =>
            /\ Len(e) = 2
            /\ \E i, j \in 1..2 :
                /\ e[i].type = "A" /\ e[i].mask = -1072496480
                /\ e[j].type = "D" /\ e[j].mask = 65536 /\ e[j].flags = 0

C3_Witness ==
    /\ Gave(last) /\ ~last.recursive /\ last.permissions = "MODIFY_PROTECTED"
    /\ Len(EntriesOf(pre.dacl[Root], STUDENTS)) = 3
    /\ Len(EntriesOf(dacl[Root], STUDENTS)) = 2

\* C4 (as stated): after give_permission(p, FULL_DENY), recursive or not,
\* every target the call stripped holds a Deny entry with the FullControl
\* mask for p and no Allow entry for p.
C4_FullDenyOnEveryTarget ==
    LET sid == LookupAccountName(last.name)
    IN  (Gave(last) /\ last.permissions = "FULL_DENY") =>
            \A path \in PathsCalled(log, "reset_user_permissions") :
                /\ \E i \in 1..Len(dacl[path]) :
                    /\ dacl[path][i].sid = sid
                    /\ dacl[path][i].type = "D"
                    /\ dacl[path][i].mask = 2032127
                /\ ~HasAllow(dacl[path], sid)

\* C5: when a non-recursive give_permission for p with level L2 follows one
\* for the same p and directory with another level L1, the directory holds
\* for p exactly the entries a single call with L2 leaves.
C5_SecondLevelReplacesFirst ==
    [][(/\ Gave(last) /\ ~last.recursive
        /\ Gave(last') /\ ~last'.recursive
        /\ last'.name = last.name /\ last'.self = last.self
        /\ last'.permissions # last.permissions) =>
            EntriesOf(dacl'[last'.self], LookupAccountName(last'.name))
                = SingleCallEntries(last'.permissions, LookupAccountName(last'.name))]_vars

C5_Witness ==
    /\ Gave(last) /\ ~last.recursive /\ last.permissions = "READ"
    /\ EntriesOf(pre.dacl[Root], STUDENTS) = SingleCallEntries("MODIFY_PROTECTED", STUDENTS)
    /\ pre.sdflags[Root] = 536870916
    /\ EntriesOf(dacl[Root], STUDENTS) = SingleCallEntries("READ", STUDENTS)

\* C6 (as stated, for a repeated level): when a recursive give_permission
\* follows a recursive give_permission for the same principal and level, no
\* path of the subtree, the root included, holds more entries for the
\* principal than before: it holds the same ones.
C6_RecursiveReapplyAddsNothing ==
    [][(/\ Gave(last) /\ last.recursive
        /\ Gave(last') /\ last'.recursive
        /\ last'.name = last.name /\ last'.self = last.self
        /\ last'.permissions = last.permissions) =>
            \A path \in {last'.self} \cup Beneath(last'.self) :
                EntriesOf(dacl'[path], LookupAccountName(last'.name))
                    = EntriesOf(dacl[path], LookupAccountName(last'.name))]_vars

\* C7: give_permission with DELETE, None or a value outside Permissions ends
\* in NotAValidPermission before any look-up or descriptor call, every
\* descriptor unchanged; with every other member validation does not fail.
C7_ValidationPrecedesEverything ==
    (last.op = "give_permission") =>
        /\ (last.permissions \in {"DELETE", "None", "bogus"}) =>
                /\ last.result = "NotAValidPermission"
                /\ log = <<>>
                /\ dacl = pre.dacl
                /\ protected = pre.protected
        /\ (last.permissions \in
                {"READ", "READ_WRITE", "MODIFY", "FULL_CONTROL", "MODIFY_PROTECTED",
                 "FULL_DENY"}) =>
                last.result # "NotAValidPermission"

C7_Witness ==
    /\ last.op = "give_permission" /\ last.permissions = "DELETE"
    /\ last.name = "ghost" /\ last.recursive
    /\ last.result = "NotAValidPermission"
    /\ Len(EntriesOf(dacl["a/b"], STUDENTS)) = 3

\* C8 (as stated): _grant_permission called with DELETE fails and leaves the
\* descriptor of the path as it was.
C8_GrantRejectsDelete ==
    (last.op = "_grant_permission" /\ last.permissions = "DELETE") =>
        /\ last.result = "NotAValidPermission"
        /\ dacl = pre.dacl

\* C8 (amended): _grant_permission validates nothing: called with DELETE it
\* returns normally and the path holds one more entry than before, an Allow
\* entry with the Delete mask for the principal, placed last.
C8_GrantAcceptsDelete ==
    (last.op = "_grant_permission" /\ last.permissions = "DELETE") =>
        LET acl == dacl[last.self]
        IN  /\ last.result = "ok"
            /\ Len(acl) = Len(pre.dacl[last.self]) + 1
            /\ acl[Len(acl)].type = "A"
            /\ acl[Len(acl)].mask = 65536
            /\ acl[Len(acl)].sid = last.name

C8_Witness ==
    /\ last.op = "_grant_permission" /\ last.permissions = "DELETE"
    /\ last.name = STUDENTS
    /\ pre.dacl[last.self] = BaselineDescriptor
    /\ Len(dacl[last.self]) = 3

\* C9: _reset_permissions leaves on its path exactly the two baseline
\* entries, whatever the descriptor held before; on a descriptor that is
\* already the baseline it changes nothing.
C9_ResetLeavesBaseline ==
    (last.op = "_reset_permissions") =>
        /\ dacl[last.self] = BaselineDescriptor
        /\ (pre.dacl[last.self] = BaselineDescriptor) => (dacl = pre.dacl)

C9_Witness ==
    /\ last.op = "_reset_permissions"
    /\ Len(pre.dacl[last.self]) = 5
    /\ Len(EntriesOf(pre.dacl[last.self], STUDENTS)) = 4
    /\ dacl[last.self] = BaselineDescriptor

\* C10 (as stated): after _reset_permissions the DACL of the path is
\* protected and its entries propagate.
C10_ResetProtects ==
    (last.op = "_reset_permissions") =>
        /\ protected[last.self]
        /\ \A i \in 1..Len(dacl[last.self]) : dacl[last.self][i].flags = 3

\* C10 (amended): _reset_permissions writes with DACL_SECURITY_INFORMATION
\* alone, neither the protected nor the unprotected flag, so the DACL keeps
\* the protection it had (an unprotected one stays unprotected); the entries
\* it installs propagate to containers and objects.
C10_ResetKeepsProtection ==
    (last.op = "_reset_permissions") =>
        /\ sdflags[last.self] = 4
        /\ protected[last.self] = pre.protected[last.self]
        /\ \A i \in 1..Len(dacl[last.self]) : dacl[last.self][i].flags = 3

C10_Witness ==
    /\ last.op = "_reset_permissions"
    /\ ~pre.protected[last.self]
    /\ pre.sdflags[last.self] = 536870916
    /\ ~protected[last.self]
    /\ dacl[last.self] = BaselineDescriptor

----------------------------------------------------------------------------
(* C11..C20                                                                 *)

\* The entries of an ACL that do not name the principal sid, in their order.
RECURSIVE OthersFrom(_, _, _)
OthersFrom(acl, sid, i) ==
    IF i > Len(acl) THEN <<>>
    ELSE (IF acl[i].sid # sid THEN <<acl[i]>> ELSE <<>>) \o OthersFrom(acl, sid, i + 1)

\* C11: reset_user_permissions leaves on its path exactly the entries that do
\* not name the principal, unchanged and in their order, whether the matching
\* ones were adjacent or last, and touches no other path; its scan reads one
\* entry per entry the descriptor held and every index it reads is below the
\* number of entries the list holds at that moment.
C11_StripRemovesEveryMatch ==
    (last.op = "reset_user_permissions") =>
        LET before == pre.dacl[last.self]
            reads == StripReads(before, 0, Len(before), last.name)
        IN  /\ last.result = "ok"
            /\ dacl[last.self] = OthersFrom(before, last.name, 1)
            /\ \A path \in Paths \ {last.self} : dacl[path] = pre.dacl[path]
            /\ Len(reads) = Len(before)
            /\ \A r \in 1..Len(reads) : reads[r].i >= 0 /\ reads[r].i < reads[r].count

C11_Witness ==
    /\ last.op = "reset_user_permissions" /\ last.name = STUDENTS
    /\ Len(pre.dacl[last.self]) = 4
    /\ pre.dacl[last.self][1].sid = STUDENTS
    /\ pre.dacl[last.self][3].sid = STUDENTS
    /\ pre.dacl[last.self][4].sid = STUDENTS
    /\ Len(dacl[last.self]) = 1
    /\ dacl[last.self][1].sid = EVERYONE

\* C12: a reset_user_permissions on a descriptor that holds no entry for the
\* principal returns normally and leaves every entry list and every
\* protection as it was; so does one that directly follows another for the
\* same principal and path.
C12_StripIsIdempotent ==
    [][(last'.op = "reset_user_permissions") =>
          /\ (EntriesOf(dacl[last'.self], last'.name) = <<>>) =>
                /\ last'.result = "ok"
                /\ dacl' = dacl
                /\ protected' = protected
          /\ (/\ last.op = "reset_user_permissions"
              /\ last.self = last'.self /\ last.name = last'.name) =>
                /\ last'.result = "ok"
                /\ dacl' = dacl
                /\ protected' = protected]_vars

C12_Witness ==
    /\ last.op = "reset_user_permissions" /\ last.name = STUDENTS
    /\ Len(pre.dacl[last.self]) = 1
    /\ pre.dacl[last.self][1].sid = EVERYONE
    /\ dacl = pre.dacl

C14_DenyAddsOneDenyFirst ==
    (last.op = "_deny_permission") =>
        LET before == pre.dacl[last.self]
            returned == deny_permission_returns(pre, last.name, last.self,
                                                last.permissions, last.inherits,
                                                last.propagation)
            entry == [type |-> "D", flags |-> IF last.propagation THEN 3 ELSE 0,
                      mask |-> CatalogMask(last.permissions), sid |-> last.name]
        IN  /\ last.result = "ok"
            /\ Len(returned) = Len(before) + 1
            /\ \E j \in 1..Len(returned) :
                    /\ returned[j] = entry
                    /\ SubSeq(returned, 1, j - 1) \o SubSeq(returned, j + 1, Len(returned))
                            = before
            /\ (\A i \in 1..Len(before) : before[i].type = "A") =>
                    returned = <<entry>> \o before
            /\ dacl[last.self] = returned

C14_Witness ==
    /\ last.op = "_deny_permission" /\ last.permissions = "DELETE"
    /\ last.name = EVERYONE /\ ~last.propagation
    /\ pre.dacl[last.self] = BaselineDescriptor
    /\ dacl[last.self] =
            <<[type |-> "D", flags |-> 0, mask |-> 65536, sid |-> "S-1-1-0"]>>
            \o BaselineDescriptor

\* C15: _set_flags, as _grant_permission and _deny_permission call it,
\* returns for its two booleans the pair the table of test_set_flags lists:
\* the descriptor flags are 536870916 (DACL | UNPROTECTED_DACL) when `inherits`
\* and -2147483644 (DACL | PROTECTED_DACL) when not, whatever `propagation`
\* is; the ACE flags are 3 (container and object inherit) when `propagation`
\* and 0 when not, whatever `inherits` is; the four pairs differ from one
\* another.  The write that follows carries the descriptor flags and the new
\* entry the ACE flags.
C15_SetFlagsTable ==
    (last.op \in {"_grant_permission", "_deny_permission"}) =>
        LET f == set_flags(last.inherits, last.propagation)
        IN  /\ f[1] = (IF last.inherits THEN 536870916 ELSE -2147483644)
            /\ f[2] = (IF last.propagation THEN 3 ELSE 0)
            /\ HasFlag(f[1], PROTECTED_DACL_SECURITY_INFORMATION) = ~last.inherits
            /\ HasFlag(f[1], UNPROTECTED_DACL_SECURITY_INFORMATION) = last.inherits
            /\ \A b \in BOOLEAN :
                    /\ set_flags(last.inherits, b)[1] = f[1]
                    /\ set_flags(b, last.propagation)[2] = f[2]
            /\ \A i1, p1, i2, p2 \in BOOLEAN :
                    (<<i1, p1>> # <<i2, p2>>) => (set_flags(i1, p1) # set_flags(i2, p2))
            /\ sdflags[last.self] = f[1]
            /\ protected[last.self] = ~last.inherits
            /\ \E i \in 1..Len(dacl[last.self]) :
                    /\ dacl[last.self][i].sid = last.name
                    /\ dacl[last.self][i].flags = f[2]

C15_Witness ==
    /\ last.op = "_deny_permission" /\ last.inherits /\ ~last.propagation
    /\ pre.protected[last.self]
    /\ ~protected[last.self]
    /\ sdflags[last.self] = 536870916
    /\ dacl[last.self][1].flags = 0

\* The last operation was a give_permission that a refused descriptor
\* access ended.
GaveUp(op, calls) ==
    /\ op.op = "give_permission"
    /\ op.result \in {"OSError", "pywintypes.error"}
    /\ Len(calls) > 1

\* Whether an ACL holds the entry a call with `level` applies for sid.
CarriesNewEntry(acl, level, sid) ==
    \E i \in 1..Len(acl) :
        /\ acl[i].sid = sid
        /\ acl[i].type = (IF level = "FULL_DENY" THEN "D" ELSE "A")
        /\ acl[i].mask = (CASE level = "MODIFY_PROTECTED" -> -1072496480
                             [] level = "FULL_DENY" -> 2032127
                             [] OTHER -> CatalogMask(level))

\* C16 (as stated): when a recursive give_permission is ended by a refused
\* descriptor access on its k-th target, every target before the k-th holds
\* the entry the call applies for the principal and every target after the
\* k-th holds the descriptor it had before the call.
C16_FailureLeavesPrefixApplied ==
    (GaveUp(last, log) /\ last.recursive) =>
        LET sid == LookupAccountName(last.name)
            targets == list_subdirectories_recurs(last.self)
        IN  \A k \in 1..Len(targets) :
                (targets[k] = log[Len(log)].path) =>
                    /\ \A i \in 1..(k - 1) :
                            CarriesNewEntry(dacl[targets[i]], last.permissions, sid)
                    /\ \A i \in (k + 1)..Len(targets) :
                            dacl[targets[i]] = pre.dacl[targets[i]]

\* C17 (as stated): a give_permission that a refused descriptor access ended
\* raised an exception that names the path of the call that was refused and
\* reports the error of the system.
C17_FailureNamesPath ==
    GaveUp(last, log) =>
        /\ raised.path = log[Len(log)].path
        /\ raised.cause = "pywintypes.error"

\* C18: a give_permission whose principal name does not resolve ends in an
\* exception, recursive or not: with an accepted level in the error of the
\* look-up, which is the only call issued; no strip, grant or deny call is
\* issued and every descriptor, protection and write flag is as before.
C18_UnknownPrincipalWritesNothing ==
    (last.op = "give_permission" /\ LookupAccountName(last.name) = "") =>
        /\ last.result \in {"NotAValidPermission", "pywintypes.error"}
        /\ ValidPermission(last.permissions) =>
                /\ last.result = "pywintypes.error"
                /\ log = <<LookupCall(last.name)>>
        /\ CountCalls(log, "reset_user_permissions") = 0
        /\ CountCalls(log, "_grant_permission") = 0
        /\ CountCalls(log, "_deny_permission") = 0
        /\ dacl = pre.dacl
        /\ protected = pre.protected
        /\ sdflags = pre.sdflags

C18_Witness ==
    /\ last.op = "give_permission" /\ last.name = "ghost"
    /\ last.recursive /\ last.permissions = "FULL_DENY"
    /\ last.result = "pywintypes.error"
    /\ Len(EntriesOf(dacl["a/b"], STUDENTS)) = 3
    /\ sdflags["a/b"] = 0

\* C19: when a give_permission that a refused descriptor access ended is
\* followed by the same call and that one returns normally, every path holds
\* for the principal the entries it would hold had the call returned
\* normally the first time, from the state the failed attempt started in.
C19_RetryEqualsSingleCall ==
    [][(/\ GaveUp(last, log)
        /\ Gave(last')
        /\ last'.self = last.self /\ last'.name = last.name
        /\ last'.permissions = last.permissions
        /\ last'.recursive = last.recursive) =>
            LET sid == LookupAccountName(last.name)
                single == ApplyCalls(pre,
                                     give_permission_calls(last.self, sid,
                                                           last.permissions,
                                                           last.recursive), 1)
            IN  \A path \in Paths :
                    EntriesOf(dacl'[path], sid) = EntriesOf(single.dacl[path], sid)]_vars

C19_Witness ==
    /\ Gave(last) /\ last.recursive /\ last.permissions = "MODIFY_PROTECTED"
    /\ pre.sdflags[Root] = 0
    /\ pre.sdflags["a/b"] = 4
    /\ pre.sdflags["a/b/3.txt"] = 0
    /\ Len(EntriesOf(pre.dacl["a/b/3.txt"], STUDENTS)) = 3
    /\ EntriesOf(dacl["a/b/3.txt"], STUDENTS) = <<>>
    /\ Len(dacl[Root]) = Len(pre.dacl[Root]) + 1

\* C20: no descriptor ever holds an Allow entry with the Delete mask or an
\* entry whose mask is the value of MODIFY_PROTECTED or FULL_DENY; the levels
\* give_permission hands to _grant_permission are READ, READ_WRITE, MODIFY
\* and FULL_CONTROL, and those it hands to _deny_permission are FULL_CONTROL
\* and, in a MODIFY_PROTECTED call and for the path of the directory only,
\* DELETE.
C20_DeleteAndPoliciesStayInside ==
    /\ \A path \in Paths : \A i \in 1..Len(dacl[path]) :
            /\ ~(dacl[path][i].type = "A" /\ dacl[path][i].mask = 65536)
            /\ dacl[path][i].mask \notin {2032128, 2032129}
    /\ (last.op = "give_permission") =>
            \A i \in 1..Len(log) :
                /\ (log[i].call = "_grant_permission") =>
                        log[i].permissions \in {"READ", "READ_WRITE", "MODIFY",
                                                "FULL_CONTROL"}
                /\ (log[i].call = "_deny_permission") =>
                        \/ log[i].permissions = "FULL_CONTROL"
                        \/ /\ log[i].permissions = "DELETE"
                           /\ last.permissions = "MODIFY_PROTECTED"
                           /\ log[i].path = last.self

C20_Witness ==
    /\ Gave(last) /\ ~last.recursive /\ last.permissions = "MODIFY_PROTECTED"
    /\ pre.dacl[Root] = BaselineDescriptor
    /\ Len(log) = 4
    /\ log[4].call = "_deny_permission" /\ log[4].permissions = "DELETE"
    /\ dacl[Root][1] = [type |-> "D", flags |-> 0, mask |-> 65536, sid |-> STUDENTS]

----------------------------------------------------------------------------
(* C21..C30                                                                 *)

\* How many calls of a log are on one path.
CallsOn(calls, path) == Cardinality({i \in 1..Len(calls) : calls[i].path = path})

C27_RecursiveModifyProtectedCoversTree ==
    LET sid == LookupAccountName(last.name)
    IN  (Gave(last) /\ last.recursive /\ last.permissions = "MODIFY_PROTECTED") =>
            /\ \A path \in PathsCalled(log, "reset_user_permissions") :
                    \E i \in 1..Len(dacl[path]) :
                        /\ dacl[path][i].sid = sid
                        /\ dacl[path][i].type = "A"
                        /\ dacl[path][i].mask = -1072496480
            /\ \E i \in 1..Len(dacl[last.self]) :
                    dacl[last.self][i] =
                        [type |-> "D", flags |-> 0, mask |-> 65536, sid |-> sid]
            /\ PathsCalled(log, "_deny_permission") = {last.self}

\* C28: among the calls of one give_permission no reset_user_permissions on
\* a path comes after a _grant_permission or _deny_permission on that path;
\* and when the operation returns normally, the entry each of its
\* _grant_permission and _deny_permission calls added is on the path of the
\* call.
C28_StripPrecedesApply ==
    (last.op = "give_permission") =>
        /\ \A i, j \in 1..Len(log) :
                (/\ i < j
                 /\ log[i].path = log[j].path
                 /\ log[i].call \in {"_grant_permission", "_deny_permission"}) =>
                    log[j].call # "reset_user_permissions"
        /\ Gave(last) =>
                \A j \in 1..Len(log) :
                    (log[j].call \in {"_grant_permission", "_deny_permission"}) =>
                        \E i \in 1..Len(dacl[log[j].path]) :
                            dacl[log[j].path][i] =
                                [type |-> IF log[j].call = "_grant_permission"
                                          THEN "A" ELSE "D",
                                 flags |-> IF log[j].propagation THEN 3 ELSE 0,
                                 mask |-> CatalogMask(log[j].permissions),
                                 sid |-> log[j].sid]

C28_Witness ==
    /\ Gave(last) /\ ~last.recursive /\ last.permissions = "MODIFY_PROTECTED"
    /\ Len(EntriesOf(pre.dacl[Root], STUDENTS)) = 3
    /\ Len(log) = 4
    /\ log[2].call = "reset_user_permissions"
    /\ log[3].call = "_grant_permission"
    /\ log[4].call = "_deny_permission"
    /\ Len(EntriesOf(dacl[Root], STUDENTS)) = 2

\* The paths a give_permission is to act on: the directory and, when
\* recursive, everything beneath it.
TargetSet(op) == {op.self} \cup (IF op.recursive THEN Beneath(op.self) ELSE {})

----------------------------------------------------------------------------
(* C22..C24: the operations on files.                                       *)

TreeAt(disk, p) ==
    {<<SubSeq(q, Len(p) + 1, Len(q)), disk[q]>> :
        q \in {x \in DOMAIN disk : IsPrefix(p, x)}}

\* C23: move_dir_to(destination, overwrite) moves the directory and returns
\* True exactly when the destination does not exist or overwrite is true,
\* and the path of the Directory is then the destination; otherwise it
\* returns False, moves nothing and leaves the path of the Directory as it
\* was.  (Moved: what lay at the old path lies at the destination or
\* beneath it.)
C23_MovesIffFreeOrOverwrite ==
    last.op = "move_dir_to" =>
        IF last.destination \notin DOMAIN pre.files \/ last.overwrite
        THEN /\ last.result = "True"
             /\ self_path = last.destination
             /\ \E q \in DOMAIN files :
                    /\ IsPrefix(last.destination, q)
                    /\ TreeAt(files, q) = TreeAt(pre.files, pre.self_path)
        ELSE /\ last.result = "False"
             /\ files = pre.files
             /\ self_path = pre.self_path

\* C24: copy_to(source, destination, overwrite) returns True exactly when the
\* source exists and (overwrite is true or the destination does not exist);
\* in exactly those cases the content of the source is copied to the
\* destination, and a call that does not return True leaves the disk as it
\* was.
C24_CopiesIffSourceAndFreeOrOverwrite ==
    last.op = "copy_to" =>
        IF /\ last.source \in DOMAIN pre.files
           /\ last.overwrite \/ last.destination \notin DOMAIN pre.files
        THEN /\ last.result = "True"
             /\ \E q \in DOMAIN files :
                    /\ IsPrefix(last.destination, q)
                    /\ files[q].kind = pre.files[last.source].kind
                    /\ files[q].content = pre.files[last.source].content
        ELSE /\ last.result = "False"
             /\ files = pre.files

----------------------------------------------------------------------------
(* C25: shares.                                                             *)

\* The calls of one kind in a log of calls to the server.
ShareCalls(calls, name) == {i \in 1..Len(calls) : calls[i].call = name}

\* C25: with overwrite=True create_share deletes an existing share of the
\* same name before it adds the new one, so the add meets no share of that
\* name and exactly the new share carries the name afterwards; with
\* overwrite=False an existing share of the name is not deleted and the
\* creation fails with error 2118; when no share of the name exists the
\* creation succeeds in both modes and nothing is deleted.
C25_OverwriteDeletesBeforeAdding ==
    last.op = "create_share" =>
        LET existed == \E s \in pre : s.netname = last.share_name
            new == Share(last.share_name, last.path, last.remark)
            others == {s \in pre : s.netname # last.share_name}
            enumerated == IF last.overwrite THEN <<ShareCall("NetShareEnum", "-")>>
                          ELSE <<>>
        IN  IF existed /\ last.overwrite
            THEN /\ log = enumerated \o <<ShareCall("NetShareDel", last.share_name),
                                          ShareCall("NetShareAdd", last.share_name)>>
                 /\ last.result = "ok"
                 /\ shares = others \cup {new}
            ELSE IF existed
            THEN /\ ShareCalls(log, "NetShareDel") = {}
                 /\ last.result = "2118"
                 /\ raised.cause = "2118"
                 /\ shares = pre
            ELSE /\ ShareCalls(log, "NetShareDel") = {}
                 /\ last.result = "ok"
                 /\ shares = pre \cup {new}

\* A share was replaced by one of the same name with another path and remark.
C25_Witness ==
    /\ last.op = "create_share"
    /\ last.overwrite
    /\ last.result = "ok"
    /\ \E s \in pre : /\ s.netname = last.share_name
                       /\ s.path # last.path
                       /\ s.remark # last.remark
    /\ Cardinality({s \in shares : s.netname = last.share_name}) = 1
    /\ Cardinality(shares) = 2

----------------------------------------------------------------------------
(* C26: names of a domain.                                                  *)

\* C26: the switcher turns a standard name (two or more labels between dots)
\* into LDAP form and an LDAP name into standard form, the switcher applied
\* to its own result returns the name it started from, it raises
\* NotAValidDNS for a name in neither form, and no name is in both forms.
C26_SwitcherRoundTrips ==
    last.op = "dns_ldap_path_switcher" =>
        /\ ~(is_std_dns(last.dns) /\ is_ldap_dns(last.dns))
        /\ (raised = NotAValidDNS) <=>
                (~is_std_dns(last.dns) /\ ~is_ldap_dns(last.dns))
        /\ is_std_dns(last.dns) => is_ldap_dns(last.result)
        /\ is_ldap_dns(last.dns) => is_std_dns(last.result)
        /\ Len(log) = 2 => last.result = arg.dns

----------------------------------------------------------------------------
(* C29: two writers of one descriptor.                                      *)

\* The DACL a mutator call makes of the DACL it has read.
Changed(call, acl) ==
    CASE call.call = "_grant_permission" ->
            AddAccessAllowedAceEx(acl, set_flags(call.inherits, call.propagation)[2],
                                  PermValue(call.permissions), call.sid)
      [] call.call = "_deny_permission" ->
            AddAccessDeniedAceEx(acl, set_flags(call.inherits, call.propagation)[2],
                                 PermValue(call.permissions), call.sid)
      [] call.call = "reset_user_permissions" ->
            StripLoop(acl, 0, Len(acl), call.sid)

\* The entries of a DACL.
Entries(acl) == {acl[i] : i \in 1..Len(acl)}

\* C29: nothing is locked between the read and the write of a mutator.  A
\* write puts on the object what its call makes of the descriptor it read:
\* when other writes reached the object after that read, the object holds
\* nothing of them afterwards unless the descriptor read held it or the call
\* itself adds it; when no write fell in between, the call has worked on
\* the descriptor the writer before it left, whose change is kept as the
\* call keeps it.
C29_WriteAfterStaleReadLosesUpdates ==
    last.caller \in Callers =>
        LET path == last.call.path
            n == Len(log)
        IN  /\ last.acl = log[last.seen]
            /\ log[n] = dacl[path]
            /\ log[n - 1] = pre.dacl[path]
            /\ dacl[path] = Changed(last.call, log[last.seen])
            /\ last.seen = n - 1 => dacl[path] = Changed(last.call, pre.dacl[path])
            /\ last.seen < n - 1 =>
                    \A e \in Entries(dacl[path]) :
                        \/ e \in Entries(log[last.seen])
                        \/ /\ last.call.call # "reset_user_permissions"
                           /\ e.sid = last.call.sid
                           /\ e.mask = PermValue(last.call.permissions)

\* A grant for one principal, written after a read that is older than the
\* grant another writer made for another principal, removed that grant.
C29_Witness ==
    /\ last.caller \in Callers
    /\ last.seen < Len(log) - 1
    /\ last.call.call = "_grant_permission"
    /\ \E e \in Entries(pre.dacl[RacePath]) :
            /\ e.sid # last.call.sid
            /\ e \notin Entries(last.acl)
            /\ e \notin Entries(dacl[RacePath])
    /\ \E e \in Entries(dacl[RacePath]) : e.sid = last.call.sid

====
